---- MODULE Spec2Model ----
(***************************************************************************)
(* Model of dumbrss.py: an RSS aggregator that fetches the feeds of a      *)
(* configuration, parses them and renders one static index.html.           *)
(*                                                                         *)
(* Strings are sequences of atoms.  An atom is either a line boundary      *)
(* character or a chunk of characters without line boundaries; the chunks  *)
(* are chosen so that the boilerplate marker occurs in a string exactly    *)
(* when its three chunks occur next to each other.                         *)
(***************************************************************************)
EXTENDS Integers, Sequences, FiniteSets, TLC

\* ------------------------------------------------------------------ bounds
\* atoms of a description text
MaxLen == 5
\* children of an item
MaxItemEls == 3
\* channel children read in one run, over all its feeds
MaxEls == 2
\* categories of the configuration, URLs of a category, URLs in all
MaxCats == 2
MaxUrls == 2
MaxFeeds == 2

\* ------------------------------------------------------------------- state
\* Article.parse_description applied to a text, and to its own result
VARIABLES s, out, out2, dpc

dvars == <<s, out, out2, dpc>>

\* Article.parse reading the children of one item, then Article.format
VARIABLES item, article, rendered, apc

avars == <<item, article, rendered, apc>>

\* main: the configuration, the position of the two loops, the requests made
\* and answered, the Feed being parsed, the fragments built and index.html
VARIABLES config, pc, ci, ui, gets, resps, feed, els, feeds, categories,
          index, writes, hist

rvars == <<config, pc, ci, ui, gets, resps, feed, els, feeds, categories,
           index, writes, hist>>

vars == <<dvars, avars, rvars>>

\* ------------------------------------------------------------ Python values
None == [k |-> "none", v |-> <<>>]
Str(t) == [k |-> "str", v |-> t]
Method == [k |-> "method", v |-> <<>>]
Raise(e) == [k |-> "raise", v |-> <<e>>]

\* bool(x) of an element's text: None and "" are falsy
Truthy(x) == x.k # "none" /\ ~(x.k = "str" /\ x.v = <<>>)

\* str(x) as str.format renders a field
Render(x) == IF x.k = "none" THEN <<"None">> ELSE x.v

RECURSIVE Join(_, _)
Join(parts, sep) ==
    IF parts = <<>> THEN <<>>
    ELSE IF Len(parts) = 1 THEN Head(parts)
    ELSE Head(parts) \o sep \o Join(Tail(parts), sep)

\* ------------------------------------------------- Article.parse_description
bad == <<"appeared", " first", " on">>

Contains(ln, sub) ==
    \E i \in 1..(Len(ln) - Len(sub) + 1) : SubSeq(ln, i, i + Len(sub) - 1) = sub

\* str.splitlines(): "\r\n" is one boundary, a trailing boundary adds no line
RECURSIVE splitlines_from(_, _)
splitlines_from(t, cur) ==
    IF t = <<>> THEN (IF cur = <<>> THEN <<>> ELSE <<cur>>)
    ELSE IF Head(t) = "\r" /\ Len(t) >= 2 /\ t[2] = "\n"
         THEN <<cur>> \o splitlines_from(Tail(Tail(t)), <<>>)
    ELSE IF Head(t) \in {"\n", "\r"}
         THEN <<cur>> \o splitlines_from(Tail(t), <<>>)
    ELSE splitlines_from(Tail(t), Append(cur, Head(t)))

splitlines(t) == splitlines_from(t, <<>>)

KeepLine(ln) == ln # <<>> /\ ~Contains(ln, bad)

parse_description_nojoin(t) == Join(SelectSeq(splitlines(t), KeepLine), <<>>)

parse_description_nomarker(t) ==
    Join(SelectSeq(splitlines(t), LAMBDA ln : ln # <<>>), <<"\n">>)

parse_description(t) == Join(SelectSeq(splitlines(t), KeepLine), <<"\n">>)

Atoms == {"appeared", " first", " on", "x", "\n", "\r"}

RECURSIVE TextsOfLen(_)
TextsOfLen(n) ==
    IF n = 0 THEN {<<>>}
    ELSE {Append(t, a) : t \in TextsOfLen(n - 1), a \in Atoms}

Texts == UNION {TextsOfLen(n) : n \in 0..MaxLen}

DescInit ==
    /\ s \in Texts
    /\ out = <<>>
    /\ out2 = <<>>
    /\ dpc = "input"

Clean ==
    /\ dpc = "input"
    /\ out' = parse_description(s)
    /\ dpc' = "cleaned"
    /\ UNCHANGED <<avars, rvars, s, out2>>

CleanAgain ==
    /\ dpc = "cleaned"
    /\ out2' = parse_description(out)
    /\ dpc' = "recleaned"
    /\ UNCHANGED <<avars, rvars, s, out>>

DescNext == Clean \/ CleanAgain

\* str.split(sep) for a one-atom separator
RECURSIVE split_from(_, _, _)
split_from(t, sep, cur) ==
    IF t = <<>> THEN <<cur>>
    ELSE IF Head(t) = sep THEN <<cur>> \o split_from(Tail(t), sep, <<>>)
    ELSE split_from(Tail(t), sep, Append(cur, Head(t)))

split(t, sep) == split_from(t, sep, <<>>)

LinesOf(t) == IF t = <<>> THEN <<>> ELSE split(t, "\n")

HasMarker(ln) == Contains(ln, bad)

\* C4 (as stated): for a non-empty description text the result is exactly
\* the input's lines that do not contain "appeared first on", verbatim and in
\* order; every line without the marker, an empty line included, is kept.
C4_AsStated ==
    (dpc = "cleaned" /\ s # <<>>) =>
        out = Join(SelectSeq(splitlines(s), LAMBDA ln : ~HasMarker(ln)), <<"\n">>)

\* C4 (amended): for a non-empty description text the lines of the result are
\* exactly the input's non-empty lines that do not contain "appeared first
\* on", verbatim and in their original order; every line that contains the
\* marker and every empty line is removed.
C4_NonEmptyUnmarkedLinesKept ==
    (dpc = "cleaned" /\ s # <<>>) =>
        /\ LinesOf(out) =
              SelectSeq(splitlines(s), LAMBDA ln : ln # <<>> /\ ~HasMarker(ln))
        /\ \A i \in 1..Len(LinesOf(out)) : ~HasMarker(LinesOf(out)[i])

C4_Witness ==
    /\ dpc = "cleaned"
    /\ \E i \in 1..Len(splitlines(s)) : HasMarker(splitlines(s)[i])
    /\ Len(LinesOf(out)) >= 1
    /\ Len(splitlines(s)) > Len(LinesOf(out))

\* C5: description cleaning is idempotent: cleaning the cleaned text again
\* yields the cleaned text.
C5_Idempotent == dpc = "recleaned" => out2 = out

C5_Witness ==
    /\ dpc = "recleaned"
    /\ out # <<>>
    /\ out # s
    /\ Len(LinesOf(out)) >= 2

\* ------------------------------------------------------------ Article.parse_dt
Days == {"01", "04"}
Months == {"Jan", "Oct"}
Years == {"2023", "2024"}

\* t[lo:hi] of a Python list, 0-based and clipped
Slice(t, lo, hi) ==
    IF lo >= Len(t) THEN <<>>
    ELSE SubSeq(t, lo + 1, IF hi < Len(t) THEN hi ELSE Len(t))

\* datetime.strptime(t, "%d %b %Y")
strptime(t) ==
    IF /\ Len(t) = 5
       /\ t[1] \in Days /\ t[2] = " " /\ t[3] \in Months /\ t[4] = " "
       /\ t[5] \in Years
    THEN [k |-> "date", v |-> <<t[1], t[3], t[5]>>]
    ELSE Raise("ValueError")

parse_dt(t) == strptime(Join(Slice(split(t, " "), 1, 4), <<" ">>))

MonthNumber(m) == IF m = "Jan" THEN "01" ELSE "10"
YearOfCentury(y) == IF y = "2023" THEN "23" ELSE "24"

\* datetime.strftime(d, "%x"); a value that is no datetime is a TypeError
strftime(d) ==
    IF d.k = "date"
    THEN Str(<<MonthNumber(d.v[2]), "/", d.v[1], "/", YearOfCentury(d.v[3])>>)
    ELSE Raise("TypeError")

\* -------------------------------------------------------------------- Article
ArticleAttrs ==
    {"title", "link", "description", "date",
     "format", "parse", "parse_dt", "parse_description"}

ArticleNew_NoneDescription ==
    [title |-> Str(<<>>), link |-> Str(<<>>), description |-> None,
     date |-> None, format |-> Method, parse |-> Method,
     parse_dt |-> Method, parse_description |-> Method]

ArticleNew ==
    [title |-> Str(<<>>), link |-> Str(<<>>), description |-> Str(<<>>),
     date |-> None, format |-> Method, parse |-> Method,
     parse_dt |-> Method, parse_description |-> Method]

IsRaise(x) == "k" \in DOMAIN x /\ x.k = "raise"

\* one iteration of the loop of Article.parse
ArticleStep(a, el) ==
    IF el.tag = "pubDate" THEN
        LET d == IF Truthy(el.text) THEN parse_dt(el.text.v) ELSE None
        IN  IF IsRaise(d) THEN d ELSE [a EXCEPT !.date = d]
    ELSE IF el.tag = "description" THEN
        [a EXCEPT !.description =
            IF Truthy(el.text) THEN Str(parse_description(el.text.v)) ELSE None]
    ELSE IF el.tag \in ArticleAttrs THEN [a EXCEPT ![el.tag] = el.text]
    ELSE a

RECURSIVE ArticleLoop(_, _)
ArticleLoop(a, children) ==
    IF IsRaise(a) \/ children = <<>> THEN a
    ELSE ArticleLoop(ArticleStep(a, Head(children)), Tail(children))

ArticleParse(children) == ArticleLoop(ArticleNew, children)

\* ARTICLE_FMT with its four fields filled in
ArticleFormat(a) ==
    IF a.format.k # "method" THEN Raise("TypeError")
    ELSE LET date == IF Truthy(a.date) THEN strftime(a.date)
                     ELSE a.date
         IN  IF IsRaise(date) THEN date
             ELSE [tag |-> "article",
                   date |-> Render(date),
                   link |-> Render(a.link),
                   title |-> Render(a.title),
                   description |-> Render(a.description)]

El(tag, text) == [tag |-> tag, text |-> text]

GoodDate ==
    <<"Wed,", " ", "04", " ", "Oct", " ", "2023", " ", "10:00:00", " ", "GMT">>
NoWeekdayDate == <<"04", " ", "Oct", " ", "2023", " ", "10:00:00", " ", "GMT">>
HelloDesc == <<"x", "\n", "appeared", " first", " on">>
BoilerplateDesc == <<"appeared", " first", " on">>

ItemEls ==
    {El("pubDate", None), El("pubDate", Str(GoodDate)),
     El("pubDate", Str(NoWeekdayDate)),
     El("description", None), El("description", Str(HelloDesc)),
     El("description", Str(BoilerplateDesc)),
     El("title", Str(<<"x">>)), El("guid", Str(<<"x">>)),
     El("date", Str(<<"x">>)), El("format", None)}

NoBlock == [tag |-> "none"]

ArticleInit ==
    /\ item = <<>>
    /\ article = ArticleNew
    /\ rendered = NoBlock
    /\ apc = "parse"

ArticleParseEl ==
    /\ apc = "parse"
    /\ Len(item) < MaxItemEls
    /\ \E el \in ItemEls :
        /\ item' = Append(item, el)
        /\ article' = ArticleStep(article, el)
        /\ apc' = IF IsRaise(ArticleStep(article, el)) THEN "raised" ELSE "parse"
    /\ UNCHANGED <<dvars, rvars, rendered>>

ArticleReturn ==
    /\ apc = "parse"
    /\ apc' = "parsed"
    /\ UNCHANGED <<dvars, rvars, item, article, rendered>>

ArticleFormatted ==
    /\ apc = "parsed"
    /\ rendered' = ArticleFormat(article)
    /\ apc' = IF IsRaise(ArticleFormat(article)) THEN "raised" ELSE "formatted"
    /\ UNCHANGED <<dvars, rvars, item, article>>

ArticleNext == ArticleParseEl \/ ArticleReturn \/ ArticleFormatted

\* ----------------------------------------------------------------------- Feed
FeedAttrs == {"title", "link", "articles", "format", "parse"}

List(items) == [k |-> "list", items |-> items]

FeedNew ==
    [title |-> Str(<<>>), link |-> Str(<<>>), articles |-> List(<<>>),
     format |-> Method, parse |-> Method]

\* one iteration of the loop of Feed.parse
FeedStep(fd, el) ==
    IF el.tag = "item" THEN
        IF fd.articles.k # "list" THEN Raise("AttributeError")
        ELSE LET a == ArticleParse(el.children)
             IN  IF IsRaise(a) THEN a
                 ELSE [fd EXCEPT !.articles = List(Append(fd.articles.items, a))]
    ELSE IF el.tag \in FeedAttrs THEN [fd EXCEPT ![el.tag] = el.text]
    ELSE fd

\* a.format() for each a of a list, stopping at the first exception
RECURSIVE FormatAll(_, _)
FormatAll(articles, done) ==
    IF articles = <<>> THEN [k |-> "ok", items |-> done]
    ELSE LET b == ArticleFormat(Head(articles))
         IN  IF IsRaise(b) THEN b
             ELSE FormatAll(Tail(articles), Append(done, b))

\* the pieces "<br/>".join() receives: a.format() for a in self.articles
FormattedArticles(articles) ==
    IF articles.k = "list" THEN FormatAll(articles.items, <<>>)
    ELSE IF articles.k = "str"
         THEN [k |-> "ok",
               items |-> [i \in 1..Len(articles.v) |->
                             [tag |-> "text", v |-> <<articles.v[i]>>]]]
    ELSE Raise("TypeError")

\* FEED_FMT with its three fields filled in
FeedFormat(fd) ==
    IF fd.format.k # "method" THEN Raise("TypeError")
    ELSE LET arts == FormattedArticles(fd.articles)
         IN  IF IsRaise(arts) THEN arts
             ELSE [tag |-> "feed", link |-> Render(fd.link),
                   title |-> Render(fd.title), articles |-> arts.items]

CategoryFormat(title, fds) == [tag |-> "category", title |-> title, feeds |-> fds]

HtmlFormat(cats) == [tag |-> "html", categories |-> cats]

\* ----------------------------------------------------------------------- main
Urls == {"u1", "u2"}

CatName(i) == [j \in 1..i |-> "A"]

RECURSIVE SeqsUpTo(_, _)
SeqsUpTo(S, n) ==
    IF n = 0 THEN {<<>>}
    ELSE SeqsUpTo(S, n - 1) \cup
         {Append(q, x) : q \in {r \in SeqsUpTo(S, n - 1) : Len(r) = n - 1}, x \in S}

RECURSIVE FlatUrls(_)
FlatUrls(cfg) == IF cfg = <<>> THEN <<>> ELSE Head(cfg).urls \o FlatUrls(Tail(cfg))

\* the table tomllib.load returns: distinct keys in file order (the i-th key is
\* CatName(i)), each with a list of URLs
Configs ==
    {cfg \in SeqsUpTo([name : {CatName(i) : i \in 1..MaxCats},
                       urls : SeqsUpTo(Urls, MaxUrls)], MaxCats) :
        /\ \A i \in 1..Len(cfg) : cfg[i].name = CatName(i)
        /\ Len(FlatUrls(cfg)) <= MaxFeeds}

ChEl(tag, text) == [tag |-> tag, text |-> text, children |-> <<>>]
Item(children) == [tag |-> "item", text |-> None, children |-> children]

HelloItem ==
    Item(<<El("title", Str(<<"x">>)), El("pubDate", Str(GoodDate)),
           El("description", Str(HelloDesc))>>)
PlainItem == Item(<<El("link", Str(<<"x">>))>>)
BadDateItem == Item(<<El("pubDate", Str(NoWeekdayDate))>>)

ChannelEls ==
    {HelloItem, PlainItem, BadDateItem, ChEl("title", Str(<<"x">>)),
     ChEl("description", Str(<<"x">>)), ChEl("articles", Str(<<"x">>))}

NoFile == [tag |-> "nofile"]

RunInit ==
    /\ config \in Configs
    /\ pc = "loop"
    /\ ci = 1
    /\ ui = 1
    /\ gets = <<>>
    /\ resps = <<>>
    /\ feed = FeedNew
    /\ els = <<>>
    /\ feeds = <<>>
    /\ categories = <<>>
    /\ index = NoFile
    /\ writes = 0
    /\ hist = <<>>

\* requests.get(url) is called
IssueGet ==
    /\ pc = "loop"
    /\ ci <= Len(config)
    /\ ui <= Len(config[ci].urls)
    /\ gets' = Append(gets, config[ci].urls[ui])
    /\ pc' = "await"
    /\ UNCHANGED <<dvars, avars, config, ci, ui, resps, feed,
                   els, feeds, categories,
                   index, writes, hist>>

RespNotOk_SkipFeed ==
    /\ pc = "await"
    /\ resps' = Append(resps, "notok")
    /\ pc' = "loop"
    /\ ui' = ui + 1
    /\ UNCHANGED <<dvars, avars, config, ci, gets, feed, els,
                   feeds, categories, index, writes, hist>>

\* the response has a non-success status: RuntimeError, never caught
RespNotOk ==
    /\ pc = "await"
    /\ resps' = Append(resps, "notok")
    /\ pc' = "failed"
    /\ UNCHANGED <<dvars, avars, config, ci, ui, gets, feed,
                   els, feeds, categories,
                   index, writes, hist>>

\* requests.get itself raises (no connection), never caught
RespError ==
    /\ pc = "await"
    /\ resps' = Append(resps, "error")
    /\ pc' = "failed"
    /\ UNCHANGED <<dvars, avars, config, ci, ui, gets, feed,
                   els, feeds, categories,
                   index, writes, hist>>

RespOk ==
    /\ pc = "await"
    /\ resps' = Append(resps, "ok")
    /\ feed' = FeedNew
    /\ els' = <<>>
    /\ pc' = "parse"
    /\ UNCHANGED <<dvars, avars, config, ci, ui, gets, feeds,
                   categories, index, writes, hist>>

RECURSIVE SumLen(_)
SumLen(docs) == IF docs = <<>> THEN 0 ELSE Len(Head(docs)) + SumLen(Tail(docs))

\* channel children read so far in the run (els is the document being read)
ElsRead == SumLen(hist) + Len(els)

\* the loop of Feed.parse takes the next child of the channel
ParseEl ==
    /\ pc = "parse"
    /\ ElsRead < MaxEls
    /\ \E el \in ChannelEls :
        /\ els' = Append(els, el)
        /\ feed' = FeedStep(feed, el)
        /\ pc' = IF IsRaise(FeedStep(feed, el)) THEN "crashed" ELSE "parse"
    /\ UNCHANGED <<dvars, avars, config, ci, ui, gets, resps,
                   feeds, categories, index, writes, hist>>

\* the channel has no more children: Feed.parse returns the feed
FeedReturn ==
    /\ pc = "parse"
    /\ pc' = "returned"
    /\ UNCHANGED <<dvars, avars, config, ci, ui, gets, resps,
                   feed, els, feeds, categories,
                   index, writes, hist>>

FormatFeed_SameUrlAgain ==
    /\ pc = "returned"
    /\ IF IsRaise(FeedFormat(feed))
       THEN /\ pc' = "crashed"
            /\ UNCHANGED <<feeds, hist>>
       ELSE /\ pc' = "loop"
            /\ feeds' = Append(feeds, FeedFormat(feed))
            /\ hist' = Append(hist, els)
    /\ els' = IF IsRaise(FeedFormat(feed)) THEN els ELSE <<>>
    /\ UNCHANGED <<dvars, avars, config, ci, ui, gets, resps,
                   feed, categories, index, writes>>

\* feeds.append(Feed.parse(url).format())
FormatFeed ==
    /\ pc = "returned"
    /\ IF IsRaise(FeedFormat(feed))
       THEN /\ pc' = "crashed"
            /\ UNCHANGED <<feeds, ui, hist>>
       ELSE /\ pc' = "loop"
            /\ feeds' = Append(feeds, FeedFormat(feed))
            /\ ui' = ui + 1
            /\ hist' = Append(hist, els)
    /\ els' = IF IsRaise(FeedFormat(feed)) THEN els ELSE <<>>
    /\ UNCHANGED <<dvars, avars, config, ci, gets, resps, feed,
                   categories, index, writes>>

\* the URLs of the category are exhausted: categories.append(...)
EndCategory ==
    /\ pc = "loop"
    /\ ci <= Len(config)
    /\ ui > Len(config[ci].urls)
    /\ categories' = Append(categories, CategoryFormat(config[ci].name, feeds))
    /\ feeds' = <<>>
    /\ ci' = ci + 1
    /\ ui' = 1
    /\ UNCHANGED <<dvars, avars, config, pc, gets, resps, feed,
                   els, index, writes, hist>>

\* html_file.write_text(...)
WriteIndex ==
    /\ pc = "loop"
    /\ ci > Len(config)
    /\ index' = HtmlFormat(categories)
    /\ writes' = writes + 1
    /\ pc' = "done"
    /\ UNCHANGED <<dvars, avars, config, ci, ui, gets, resps,
                   feed, els, feeds, categories, hist>>

\* --------------------------------------------------------------- specifications
DescIdle == s = <<>> /\ out = <<>> /\ out2 = <<>> /\ dpc = "off"

ArticleIdle ==
    item = <<>> /\ article = ArticleNew /\ rendered = NoBlock /\ apc = "off"

RunIdle ==
    /\ config = <<>> /\ pc = "off" /\ ci = 1 /\ ui = 1 /\ gets = <<>>
    /\ resps = <<>> /\ feed = FeedNew /\ els = <<>> /\ feeds = <<>>
    /\ categories = <<>> /\ index = NoFile /\ writes = 0 /\ hist = <<>>

DescSpecInit == DescInit /\ ArticleIdle /\ RunIdle
DescSpec == DescSpecInit /\ [][DescNext]_vars

ArticleSpecInit == ArticleInit /\ DescIdle /\ RunIdle
ArticleSpec == ArticleSpecInit /\ [][ArticleNext]_vars

Init == RunInit /\ DescIdle /\ ArticleIdle

Next ==
    \/ IssueGet \/ RespNotOk \/ RespError \/ RespOk \/ ParseEl
    \/ FeedReturn \/ FormatFeed \/ EndCategory \/ WriteIndex

Spec == Init /\ [][Next]_vars

\* ------------------------------------------------------------------ properties
Returned == apc \in {"parsed", "formatted"}

DescriptionEls == SelectSeq(item, LAMBDA el : el.tag = "description")

\* C9 (as stated): after Article.parse the description is unset exactly when
\* the item has no description element or its description element has no
\* text; a non-empty source text gives a present description.
C9_AsStated ==
    Returned =>
        (article.description = None <=>
            (DescriptionEls = <<>>
             \/ DescriptionEls[Len(DescriptionEls)].text = None))

\* C9 (amended): after Article.parse the description is unset exactly when
\* the item's last description element has no text; with no description
\* element it is the default empty string; with a non-empty source text it is
\* present, and it is the empty string exactly when cleaning removes every
\* line.
C9_UnsetOnlyForTextlessElement ==
    Returned =>
        IF DescriptionEls = <<>> THEN article.description = Str(<<>>)
        ELSE LET text == DescriptionEls[Len(DescriptionEls)].text
             IN  IF text = None THEN article.description = None
                 ELSE /\ article.description.k = "str"
                      /\ article.description.v = <<>> <=>
                            \A i \in 1..Len(splitlines(text.v)) :
                                \/ splitlines(text.v)[i] = <<>>
                                \/ HasMarker(splitlines(text.v)[i])

C9_Witness ==
    /\ Returned
    /\ Len(DescriptionEls) >= 2
    /\ DescriptionEls[Len(DescriptionEls)].text = Str(BoilerplateDesc)
    /\ article.description = Str(<<>>)

\* C6: Article.format shows the formatted date when the date is set, and
\* when the date is unset the date position of the fragment is empty: no date
\* text and no placeholder value.
C6_NoDatePlaceholder ==
    apc = "formatted" =>
        IF article.date = None THEN rendered.date = <<>>
        ELSE rendered.date = strftime(article.date).v

RecognizedArticleTags == {"pubDate", "description", "title", "link"}

\* C7: a child whose tag is not one of pubDate, description, title, link
\* leaves the Article unchanged: the record is the one parsed from the item
\* without such children.
C7_UnrecognizedTagsIgnored ==
    apc \in {"parse", "parsed", "formatted"} =>
        article =
            ArticleParse(SelectSeq(item, LAMBDA el : el.tag \in RecognizedArticleTags))

Malformed(el) ==
    el.tag = "pubDate" /\ Truthy(el.text) /\ IsRaise(parse_dt(el.text.v))

\* C8: a pubDate with malformed text is not fatal: Article.parse never
\* raises, and the Article is the one parsed from the item with the text of
\* each malformed pubDate absent.
C8_MalformedDateNotFatal ==
    /\ ~IsRaise(article)
    /\ Returned =>
        article = ArticleParse([i \in 1..Len(item) |->
                     IF Malformed(item[i]) THEN El("pubDate", None) ELSE item[i]])

ItemsOf(doc) == SelectSeq(doc, LAMBDA el : el.tag = "item")

\* C2: when Feed.parse returns, articles has one entry per item child of the
\* channel, the i-th being the Article parsed from the i-th item.
C2_OneArticlePerItem ==
    pc = "returned" =>
        /\ feed.articles.k = "list"
        /\ feed.articles =
              List([i \in 1..Len(ItemsOf(els)) |->
                       ArticleParse(ItemsOf(els)[i].children)])

UrlsBefore(c, u) == Len(FlatUrls(SubSeq(config, 1, c - 1))) + u - 1

ExpectedArticles(doc) ==
    [i \in 1..Len(ItemsOf(doc)) |->
        ArticleFormat(ArticleParse(ItemsOf(doc)[i].children))]

\* C3: the written document has one category block per configured category
\* in configuration order, in each one feed block per URL in list order, and
\* in each feed block exactly the article blocks of the feed's items in
\* document order.
C3_DocumentOrder ==
    pc = "done" =>
        /\ Len(index.categories) = Len(config)
        /\ \A c \in 1..Len(config) :
            /\ index.categories[c].title = config[c].name
            /\ Len(index.categories[c].feeds) = Len(config[c].urls)
            /\ \A u \in 1..Len(config[c].urls) :
                SelectSeq(index.categories[c].feeds[u].articles,
                          LAMBDA b : b.tag = "article") =
                    ExpectedArticles(hist[UrlsBefore(c, u) + 1])

\* C1: once a GET has returned a non-success status the run has terminated
\* with a failure and index.html is not written, however many feeds were
\* fetched and formatted before.
C1_NoOutputAfterFailedFetch ==
    (\E i \in 1..Len(resps) : resps[i] = "notok") =>
        /\ pc = "failed"
        /\ index = NoFile
        /\ writes = 0

C1_Witness ==
    /\ pc = "failed"
    /\ resps[Len(resps)] = "notok"
    /\ Len(hist) >= 1
    /\ Len(hist[1]) >= 1

InFlight == IF pc \in {"await", "parse", "returned", "failed", "crashed"} THEN 1 ELSE 0

\* C10: the GETs issued are a prefix of the configured URL occurrences in
\* configuration order, one per occurrence; a GET is issued only when every
\* earlier feed has been fetched, parsed and formatted; after a failed fetch
\* the run has stopped, so no GET follows it; index.html is written at most
\* once and only after every configured feed has been processed.
C10_SequentialRun ==
    /\ Len(gets) <= Len(FlatUrls(config))
    /\ gets = SubSeq(FlatUrls(config), 1, Len(gets))
    /\ Len(hist) = UrlsBefore(ci, ui)
    /\ Len(feeds) = ui - 1
    /\ Len(categories) = ci - 1
    /\ Len(gets) = Len(hist) + InFlight
    /\ Len(resps) = Len(gets) - (IF pc = "await" THEN 1 ELSE 0)
    /\ \A i \in 1..Len(resps) :
          resps[i] # "ok" => (i = Len(resps) /\ pc = "failed")
    /\ pc = "failed" => resps[Len(resps)] # "ok"
    /\ writes <= 1
    /\ (writes = 1) = (pc = "done")
    /\ (index # NoFile) = (pc = "done")
    /\ pc = "done" =>
          /\ gets = FlatUrls(config)
          /\ Len(hist) = Len(gets)
          /\ ci = Len(config) + 1

C10_Witness ==
    /\ pc = "done"
    /\ Len(config) = 2
    /\ Len(gets) = 2
    /\ gets[1] # gets[2]
    /\ Len(hist[1]) >= 1

====
